---------------------------- MODULE Spec2Model ----------------------------
(***************************************************************************)
(* A model of the WebGPU demo gallery: the pipeline factory of             *)
(* common/webgpu-utils.js (shader introspection, buffer layouts, the       *)
(* metadata side table), the error channel (fail) and the double-buffered  *)
(* frame loops of computeBoids, computeBoids-hardcode and Game of Life.    *)
(*                                                                         *)
(* Shader source text is a sequence of lexical tokens; the regular         *)
(* expressions of the source are evaluated over that sequence.             *)
(***************************************************************************)
EXTENDS Integers, Sequences, FiniteSets, TLC

VARIABLES
    \* ---- pipeline factory (webgpu-utils.js) ----
    code,              \* the shader text the loader returns, as tokens
    decl,              \* the parameters the author declared on the vertex entry point
    calls,             \* number of createPipeline calls made so far
    lastCall,          \* arguments and environment of the last createPipeline call
    result,            \* what the last createPipeline call returned or threw
    extracted,         \* what parseShaderLocations did in the last call
    layouts,           \* what generateBufferLayouts did in the last call
    pipelineMetadata,  \* the WeakMap pipeline -> {type, buffers}
    lookup,            \* what the getters gave in the last lookup since the last call
    \* ---- error channel (fail) ----
    errorOutput,       \* the dialog box and the console of the error channel
    failCalls,         \* number of times fail was invoked
    \* ---- the demos' frame loops ----
    demo,              \* which demo runs: "boids", "hardcode" or "life"
    seed,              \* the initial contents the host generates
    faulty,            \* the resources whose destroy or unconfigure throws
    pc,                \* "init" while init awaits, then "running" or "failed"
    particleBuffers,   \* contents of the two state buffers, indexed 0 and 1
    bindGroups,        \* the two compute bind groups, indexed 0 and 1
    t,                 \* the frame counter (t, or step in Game of Life)
    queue,             \* command batches submitted and not yet executed
    encoded,           \* number of command batches the encoder has finished
    submitted,         \* number of command batches submitted
    executed,          \* number of command batches the device has executed
    lastBatch,         \* the command batch submitted last
    display,           \* the instance data the last executed render pass drew
    pending,           \* animation-frame callbacks requested and not yet run
    rafRequests,       \* number of requestAnimationFrame calls
    frameLog,          \* the device and browser calls of the frame function's last run
    resolved,          \* sort() promises resolved whose continuation has not run
    stopRequested,     \* the beforeunload listener has run
    validationErrors,  \* validation errors the device has raised
    shouldContinueRendering,
    errorOccurred,
    destroyed,         \* the release calls that succeeded, in the order made
    unloadHooked,      \* the beforeunload listener is registered
    unhandledRejections, \* rejected promises whose event is not yet dispatched
    uncaughtErrors,    \* uncaught exceptions whose error event is not yet dispatched
    notifications,     \* device-loss and uncaptured-error notifications raised
    externals,         \* exceptions raised by code outside the demo
    closes,            \* times the operator closed the error dialog
    deviceLost         \* the device is lost

pipeVars == <<code, decl, calls, lastCall, result, extracted, layouts, pipelineMetadata, lookup>>

failVars == <<errorOutput, failCalls>>

hostVars == <<t, queue, encoded, submitted, lastBatch, pending, rafRequests, frameLog, resolved,
              stopRequested, validationErrors, shouldContinueRendering, errorOccurred, destroyed,
              unhandledRejections, uncaughtErrors>>

loopVars == <<demo, seed, faulty, pc, particleBuffers, bindGroups, executed, display, unloadHooked,
              notifications, externals, closes, deviceLost, hostVars>>

vars == <<pipeVars, failVars, loopVars>>

-----------------------------------------------------------------------------
(* Bounds of the model *)

MaxParams == 4      \* longest parameter list of a vertex entry point
MaxCalls  == 2      \* createPipeline calls in one run
MaxFrames == 3      \* command batches submitted in one run
MaxNotifications == 2   \* failure notifications raised in one run

-----------------------------------------------------------------------------
(* Shader text as tokens *)

Tok(k) == [k |-> k, loc |-> 0, name |-> "", ty |-> ""]

\* "@location(n) name : type", one parameter or struct field
LocParam(n, nm, ty) == [k |-> "@location", loc |-> n, name |-> nm, ty |-> ty]

\* "// @location(n) name : type" and the end of its line: a parameter that is
\* commented out
CommentedParam(n, nm, ty) == [k |-> "//@location", loc |-> n, name |-> nm, ty |-> ty]

Locations == 0 .. 3

AttrName(n) == CASE n = 0 -> "a_particlePos"
                 [] n = 1 -> "a_particleVel"
                 [] n = 2 -> "a_pos"
                 [] OTHER -> "a_extra"

ParamTokens == { LocParam(n, AttrName(n), "vec2f") : n \in Locations }

RECURSIVE SeqsUpTo(_, _)
SeqsUpTo(S, n) ==
    IF n = 0 THEN { <<>> }
    ELSE LET shorter == SeqsUpTo(S, n - 1)
         IN  shorter \cup { Append(s, x) : s \in { tok \in shorter : Len(tok) = n - 1 }, x \in S }

ParamLists == SeqsUpTo(ParamTokens, MaxParams)

Toks(ks) == [i \in 1 .. Len(ks) |-> Tok(ks[i])]

\* @vertex fn vs_main( params ) -> VertexOutput { ... }
VertexFn(params) ==
    Toks(<<"@vertex", "fn", "vs_main", "(">>) \o params
        \o Toks(<<")", "->", "VertexOutput", "{", "}">>)

\* @vertex /* entry */ fn vs_main( params ) -> VertexOutput { ... }
VertexFnCommented(params) ==
    Toks(<<"@vertex", "/*entry*/", "fn", "vs_main", "(">>) \o params
        \o Toks(<<")", "->", "VertexOutput", "{", "}">>)

\* @fragment fn fs_main() -> @location(0) vec4f { ... }
FragmentFn == Toks(<<"@fragment", "fn", "fs_main", "(", ")", "->", "vec4f", "{", "}">>)

\* struct VertexOutput { @location(0) color : vec4f }
OutputStruct ==
    Toks(<<"struct", "VertexOutput", "{">>) \o <<LocParam(0, "color", "vec4f")>> \o Toks(<<"}">>)

\* @compute @workgroup_size(64) fn cs_main( id ) { ... }
ComputeFn == Toks(<<"@compute", "@workgroup_size(64)", "fn", "cs_main", "(", "id", ")", "{", "}">>)

P012 == <<LocParam(0, AttrName(0), "vec2f"), LocParam(1, AttrName(1), "vec2f"),
          LocParam(2, AttrName(2), "vec2f")>>

\* Declared types of an attribute: recognised by both tables, recognised by
\* typeToFormat only, and recognised by neither
AttrTypes == { "f32", "vec2f", "vec3f", "vec4f", "i32", "vec2u", "mat4x4f", "vec2<f32>" }

\* Locations 0, 1 and 2 with the first attribute declared as type ty
TypedParams(ty) == <<LocParam(0, AttrName(0), ty), P012[2], P012[3]>>

\* A few parameter lists for the shaders that vary something else
FewParamLists == { <<>>, SubSeq(P012, 1, 2), P012, <<P012[3], P012[1], P012[2]>> }

RenderShaders ==
    { [code |-> VertexFn(p) \o FragmentFn, decl |-> p] : p \in ParamLists }
    \cup { [code |-> OutputStruct \o VertexFn(p) \o FragmentFn, decl |-> p] : p \in FewParamLists }
    \cup { [code |-> VertexFn(p), decl |-> p] : p \in FewParamLists }
    \cup { [code |-> VertexFnCommented(p) \o FragmentFn, decl |-> p] : p \in FewParamLists }
    \cup { [code |-> VertexFn(TypedParams(ty)) \o FragmentFn, decl |-> TypedParams(ty)] :
                ty \in AttrTypes }
    \cup { [code |-> VertexFn(p \o <<CommentedParam(n, AttrName(n), "vec2f")>>) \o FragmentFn,
             decl |-> p] : p \in FewParamLists, n \in { 1, 3 } }

OtherShaders ==
    { [code |-> ComputeFn, decl |-> <<>>],
      [code |-> FragmentFn, decl |-> <<>>],
      [code |-> Toks(<<"@compute", "@workgroup_size(64)">>), decl |-> <<>>],
      [code |-> Toks(<<"@compute", "fn", "(">>), decl |-> <<>>],
      [code |-> Toks(<<"fn", "cs_main", "(", ")", "{", "}">>), decl |-> <<>>],
      [code |-> <<>>, decl |-> <<>>],
      [code |-> VertexFn(P012) \o FragmentFn \o ComputeFn, decl |-> P012] }

Shaders == RenderShaders \cup OtherShaders

-----------------------------------------------------------------------------
(* Helpers *)

Min(S) == CHOOSE x \in S : \A y \in S : x <= y

Range(s) == { s[i] : i \in 1 .. Len(s) }

\* Array.prototype.map over a sequence
Map(s, F(_)) == [i \in 1 .. Len(s) |-> F(s[i])]

\* Tokens made only of word characters (\w+)
NonWordKinds == { "@vertex", "@fragment", "@compute", "@workgroup_size(64)", "@location",
                  "(", ")", "->", "{", "}", "/*entry*/", "//@location" }

IsWord(tok) == tok.k \notin NonWordKinds

\* Block comments, which parseShaderLocations strips from the parameter list
CommentKinds == { "/*entry*/" }

\* The text ([^\s(]+) captures at a token: everything before its first "("
NameText(tok) == IF tok.k = "@workgroup_size(64)" THEN "@workgroup_size" ELSE tok.k

-----------------------------------------------------------------------------
(* webgpu-utils.js: shader introspection *)

TypeToSize(type) ==
    CASE type = "f32"   -> 4
      [] type = "vec2f" -> 8
      [] type = "vec3f" -> 12
      [] type = "vec4f" -> 16
      [] OTHER          -> 0

\* typeMap[type] || 'float32'
TypeToFormat(type) ==
    CASE type = "f32"   -> "float32"
      [] type = "vec2f" -> "float32x2"
      [] type = "vec3f" -> "float32x3"
      [] type = "vec4f" -> "float32x4"
      [] type = "i32"   -> "sint32"
      [] type = "vec2i" -> "sint32x2"
      [] type = "vec3i" -> "sint32x3"
      [] type = "vec4i" -> "sint32x4"
      [] type = "u32"   -> "uint32"
      [] type = "vec2u" -> "uint32x2"
      [] type = "vec3u" -> "uint32x3"
      [] type = "vec4u" -> "uint32x4"
      [] OTHER          -> "float32"

\* format.match(/(\d+)x(\d+)/): the digits on both sides of the first "x"
\* that has digits on both sides, or no match
FormatMatch(format) ==
    CASE format \in { "float32x2", "sint32x2", "uint32x2" } -> <<32, 2>>
      [] format \in { "float32x3", "sint32x3", "uint32x3" } -> <<32, 3>>
      [] format \in { "float32x4", "sint32x4", "uint32x4" } -> <<32, 4>>
      [] OTHER -> <<>>

\* parseInt(match[1]) * parseInt(match[2]) * 4, and 4 without a match
FormatSize(format) ==
    LET match == FormatMatch(format)
    IN  IF match # <<>> THEN match[1] * match[2] * 4 ELSE 4

\* /@vertex\s+fn\s+([^\s(]+)/ and /@fragment\s+fn\s+([^\s(]+)/ : the positions
\* where the stage marker is directly followed by fn and a name
StageMatch(c, marker) ==
    { i \in 1 .. Len(c) - 2 : c[i].k = marker /\ c[i + 1].k = "fn" /\ c[i + 2].k # "(" }


\* /@compute[^]*?fn\s+([^\s(]+)/ : the positions j of an fn followed by a name,
\* somewhere after a compute marker
ComputeMatch(c) ==
    { j \in 2 .. Len(c) - 1 :
        /\ c[j].k = "fn"
        /\ c[j + 1].k # "("
        /\ \E i \in 1 .. j - 1 : c[i].k = "@compute" }

ParseEntryPoints(c, type) ==
    LET vertexMatch   == IF type = "render" THEN StageMatch(c, "@vertex") ELSE {}
        fragmentMatch == IF type = "render" THEN StageMatch(c, "@fragment") ELSE {}
        computeMatch  == IF type = "compute" THEN ComputeMatch(c) ELSE {}
        none == [ok |-> FALSE, vertex |-> "null", fragment |-> "null", compute |-> "null",
                 err |-> ""]
    IN  IF type = "compute" /\ computeMatch = {}
        THEN [none EXCEPT !.err = "Compute shader must contain @compute entry point"]
        ELSE IF type = "render" /\ (vertexMatch = {} \/ fragmentMatch = {})
        THEN [none EXCEPT !.err = "Render shader must contain both @vertex and @fragment entry points"]
        ELSE [ok       |-> TRUE,
              vertex   |-> IF vertexMatch = {} THEN "null"
                           ELSE NameText(c[Min(vertexMatch) + 2]),
              fragment |-> IF fragmentMatch = {} THEN "null"
                           ELSE NameText(c[Min(fragmentMatch) + 2]),
              compute  |-> IF computeMatch = {} THEN "null"
                           ELSE NameText(c[Min(computeMatch) + 1]),
              err      |-> ""]

\* /@vertex[\s\S]*?fn\s+\w+\s*\(([\s\S]*?)\)\s*(?:->|\{)/ : the positions j of
\* an "fn name (" after a vertex marker, and the positions k of a ")" after
\* it that is followed by "->" or "{"
FnStarts(c) ==
    { j \in 2 .. Len(c) - 2 :
        /\ c[j].k = "fn"
        /\ IsWord(c[j + 1])
        /\ c[j + 2].k = "("
        /\ \E i \in 1 .. j - 1 : c[i].k = "@vertex" }

Closes(c, j) ==
    { k \in j + 3 .. Len(c) - 1 : c[k].k = ")" /\ c[k + 1].k \in { "->", "{" } }

VertexFnMatches(c) == { j \in FnStarts(c) : Closes(c, j) # {} }

\* The span the lazy quantifiers select: the first fn, then the first close;
\* block comments are removed from it
RawParams(c, j) ==
    SelectSeq(SubSeq(c, j + 3, Min(Closes(c, j)) - 1), LAMBDA tok : tok.k \notin CommentKinds)

\* /@location\((\d+)\)\s+([a-zA-Z_][\w]*)\s*:\s*([a-zA-Z0-9_]+)/g matches wherever the
\* text of a parameter stands, in a line comment too
ParamRegexMatches(tok) == tok.k \in { "@location", "//@location" }

\* The text ([a-zA-Z0-9_]+) captures of a type: everything before its first "<"
CapturedType(ty) == IF ty = "vec2<f32>" THEN "vec2" ELSE ty

Attribute(tok) ==
    [location |-> tok.loc, name |-> tok.name, type |-> CapturedType(tok.ty),
     bytesPerElement |-> TypeToSize(CapturedType(tok.ty))]

\* locations.sort((a, b) => a.location - b.location): a stable insertion sort
RECURSIVE InsertByLocation(_, _)
InsertByLocation(sorted, a) ==
    IF sorted = <<>> THEN <<a>>
    ELSE IF sorted[Len(sorted)].location <= a.location THEN Append(sorted, a)
    ELSE Append(InsertByLocation(SubSeq(sorted, 1, Len(sorted) - 1), a), sorted[Len(sorted)])

RECURSIVE SortByLocation(_)
SortByLocation(s) ==
    IF s = <<>> THEN <<>>
    ELSE InsertByLocation(SortByLocation(SubSeq(s, 1, Len(s) - 1)), s[Len(s)])

\* parseShaderLocations never throws: without a vertex function, and without
\* any location, it returns the empty list
ParseShaderLocations(c) ==
    IF VertexFnMatches(c) = {} THEN <<>>
    ELSE SortByLocation(Map(SelectSeq(RawParams(c, Min(VertexFnMatches(c))),
                                      ParamRegexMatches),
                            Attribute))

-----------------------------------------------------------------------------
(* webgpu-utils.js: buffer layouts *)

ExpectedLocations == { 0, 1, 2 }

LocationSet(locations) == { locations[i].location : i \in 1 .. Len(locations) }

\* expectedLocations.every(l => actualLocations.includes(l))
HasExpectedLocations(locations) == ExpectedLocations \subseteq LocationSet(locations)


\* A variant that puts every instance attribute at offset 0
InstanceAttrAtZero(attr) ==
    [shaderLocation |-> attr.location, offset |-> 0, format |-> "float32x2"]

InstanceAttr(attr) ==
    [shaderLocation |-> attr.location, offset |-> attr.location * 8, format |-> "float32x2"]

\* A variant that lets location 2 into the instance stream
InstanceBufferUpTo2(locations) ==
    [arrayStride |-> 16,
     stepMode    |-> "instance",
     attributes  |-> Map(SelectSeq(locations, LAMBDA l : l.location <= 2), InstanceAttr)]

InstanceBuffer(locations) ==
    [arrayStride |-> 16,
     stepMode    |-> "instance",
     attributes  |-> Map(SelectSeq(locations, LAMBDA l : l.location < 2), InstanceAttr)]

VertexBuffer ==
    [arrayStride |-> 8,
     stepMode    |-> "vertex",
     attributes  |-> << [shaderLocation |-> 2, offset |-> 0, format |-> "float32x2"] >>]

GenerateBufferLayouts(locations) ==
    IF ~HasExpectedLocations(locations)
    THEN [ok |-> FALSE, val |-> <<>>, err |-> "Missing required vertex attributes"]
    ELSE [ok |-> TRUE, val |-> <<InstanceBuffer(locations), VertexBuffer>>, err |-> ""]

-----------------------------------------------------------------------------
(* webgpu-utils.js: the error channel *)

\* fail of lines 41-79 ("dialog"): the first message is shown in a modal
\* dialog and later ones are dropped while it is open; without a document
\* every message goes to the console.  fail of lines 113-121 ("console"):
\* every message goes to the console.  Both then throw.
FailDialog(out) ==
    IF ~out.hasDocument
    THEN [out EXCEPT !.console = out.console + 1]
    ELSE IF ~out.dialogOpen
    THEN [out EXCEPT !.dialogOpen = TRUE, !.shown = out.shown + 1]
    ELSE out

FailConsole(out) == [out EXCEPT !.console = out.console + 1]

Fail(out) == IF out.impl = "dialog" THEN FailDialog(out) ELSE FailConsole(out)

\* Messages that reached the operator: dialogs shown and console errors
Reports(out) == out.shown + out.console

\* The error channel of a page (it has a document) before any failure; logs
\* counts the console.error calls made outside fail
NewErrorOutput(impl) ==
    [impl |-> impl, hasDocument |-> TRUE, dialogOpen |-> FALSE, shown |-> 0, console |-> 0,
     logs |-> 0]

\* The module createPipeline lives in defines fail at lines 113-121
PipelineErrorOutput == NewErrorOutput("console")

-----------------------------------------------------------------------------
(* webgpu-utils.js: createPipeline *)

\* The outcome of one call: error is what was thrown inside the try block,
\* escapes is what leaves the call
NoResult == [status |-> "none", error |-> "", escapes |-> "", pipeline |-> 0, valid |-> FALSE]

Thrown(msg) ==
    [status |-> "error", error |-> msg, escapes |-> msg, pipeline |-> 0, valid |-> FALSE]

Returned(id, valid) ==
    [status |-> "ok", error |-> "", escapes |-> "", pipeline |-> id, valid |-> valid]

\* catch (error) { console.error(..., { ..., deviceLost: error instanceof
\* GPUDeviceLostError, ... }); throw error; }: no GPUDeviceLostError is
\* declared in the module or by WebGPU, so building the logged object raises a
\* ReferenceError before anything is logged or rethrown
CatchBlock(r) ==
    IF r.status = "error" THEN [r EXCEPT !.escapes = "GPUDeviceLostError is not defined"] ELSE r

NotRun == [ran |-> FALSE, ok |-> FALSE, val |-> <<>>, err |-> ""]

\* A variant that records nothing
MetadataSetNothing(table, pipeline, meta) == table

\* pipelineMetadata.set(pipeline, meta)
MetadataSet(table, pipeline, meta) ==
    [p \in DOMAIN table \cup { pipeline } |-> IF p = pipeline THEN meta ELSE table[p]]

\* getPipelineType and getPipelineBuffers
GetPipelineType(table, pipeline) ==
    IF pipeline \in DOMAIN table THEN table[pipeline].type ELSE "unknown"

GetPipelineBuffers(table, pipeline) ==
    IF pipeline \in DOMAIN table /\ "buffers" \in DOMAIN table[pipeline]
    THEN table[pipeline].buffers
    ELSE <<>>

\* What the two getters gave for one object, and no lookup made yet
Looked(table, pipeline) ==
    [made |-> TRUE, pipeline |-> pipeline, type |-> GetPipelineType(table, pipeline),
     buffers |-> GetPipelineBuffers(table, pipeline)]

NoLookup == [made |-> FALSE, pipeline |-> 0, type |-> "", buffers |-> <<>>]

\* A variant that never rejects an empty attribute list
NoAttributesNever(locations) == FALSE

\* if (!locations.length) throw new Error('No vertex attributes found in shader')
NoAttributes(locations) == Len(locations) = 0

\* The environment of one call: the fetch of the shader fails, or it succeeds
\* and the device accepts the pipeline descriptor ("ok"), finds it invalid (a
\* validation error) or throws from the creation call
Environments == { "fetchFails", "ok", "invalid", "throws" }

PipeTypes == { "render", "compute" }

\* One call of createPipeline, from the fetch of the shader to the return or
\* the rethrow.  The new pipeline object is identified by the call's number.
\* createComputePipelineAsync rejects on an invalid descriptor, while
\* createRenderPipeline returns an invalid pipeline object.
CreatePipeline(type, env) ==
    /\ calls < MaxCalls
    /\ \E entries \in { ParseEntryPoints(code, type) },
          locations \in { ParseShaderLocations(code) } :
       \E buffers \in { GenerateBufferLayouts(locations) } :
       LET id      == calls + 1
           fetchOk == env # "fetchFails"
           ranLoc  == fetchOk /\ entries.ok /\ type # "compute"
           ranGen  == ranLoc /\ ~NoAttributes(locations)
           outcome ==
               IF ~fetchOk THEN Thrown("Error loading shader")
               ELSE IF ~entries.ok THEN Thrown(entries.err)
               ELSE IF type = "compute"
               THEN IF env = "ok" THEN Returned(id, TRUE) ELSE Thrown("device")
               ELSE IF NoAttributes(locations)
               THEN Thrown("No vertex attributes found in shader")
               ELSE IF ~buffers.ok THEN Thrown(buffers.err)
               ELSE IF env = "throws" THEN Thrown("device")
               ELSE Returned(id, env = "ok")
       IN  /\ calls' = id
           /\ lastCall' = [type |-> type, env |-> env]
           /\ result' = CatchBlock(outcome)
           /\ lookup' = NoLookup
           /\ extracted' = IF ranLoc THEN [ran |-> TRUE, ok |-> TRUE, val |-> locations, err |-> ""]
                           ELSE NotRun
           /\ layouts' = IF ranGen THEN [ran |-> TRUE, ok |-> buffers.ok, val |-> buffers.val,
                                         err |-> buffers.err]
                         ELSE NotRun
           /\ pipelineMetadata' =
                 IF outcome.status = "ok"
                 THEN MetadataSet(pipelineMetadata, id,
                                  IF type = "compute" THEN [type |-> "compute"]
                                  ELSE [type |-> "render", buffers |-> buffers.val])
                 ELSE pipelineMetadata
           /\ errorOutput' = IF fetchOk THEN errorOutput ELSE Fail(errorOutput)
           /\ failCalls' = IF fetchOk THEN failCalls ELSE failCalls + 1
           /\ UNCHANGED <<code, decl, loopVars>>

\* A caller asks getPipelineType and getPipelineBuffers about the object of
\* the last call, or about an object that is no pipeline (0)
Lookup(pipeline) ==
    /\ pipeline \in { 0, calls }
    /\ lookup' = Looked(pipelineMetadata, pipeline)
    /\ UNCHANGED <<code, decl, calls, lastCall, result, extracted, layouts, pipelineMetadata,
                   failVars, loopVars>>

-----------------------------------------------------------------------------
(* Claims about the pipeline factory, checked under SpecPipeline *)

\* The locations the author declared on the vertex entry point
DeclaredLocations == { decl[i].loc : i \in 1 .. Len(decl) }

ShaderLocationsOf(layout) ==
    { layout.attributes[i].shaderLocation : i \in 1 .. Len(layout.attributes) }

\* The last call was a render call that loaded its shader and found both
\* entry points, so that it went on to the vertex attributes
RenderReachedAttributes == lastCall.type = "render" /\ extracted.ran

\* C1: for a vertex entry point declaring exactly the locations {0,1,2},
\* generateBufferLayouts succeeds with exactly two layouts, first the
\* instance-step layout of stride 16 carrying locations 0 and 1, then the
\* vertex-step layout of stride 8 carrying location 2, and createPipeline
\* returns a pipeline built with them unless the device call throws.
C1_LayoutsFor012 ==
    (RenderReachedAttributes /\ DeclaredLocations = { 0, 1, 2 }) =>
        /\ layouts.ran /\ layouts.ok
        /\ Len(layouts.val) = 2
        /\ layouts.val[1].arrayStride = 16
        /\ layouts.val[1].stepMode = "instance"
        /\ ShaderLocationsOf(layouts.val[1]) = { 0, 1 }
        /\ layouts.val[2].arrayStride = 8
        /\ layouts.val[2].stepMode = "vertex"
        /\ ShaderLocationsOf(layouts.val[2]) = { 2 }
        /\ (lastCall.env # "throws" =>
               /\ result.status = "ok"
               /\ GetPipelineBuffers(pipelineMetadata, result.pipeline) = layouts.val)

C1_Witness ==
    /\ RenderReachedAttributes
    /\ DeclaredLocations = { 0, 1, 2 }
    /\ decl[1].loc = 2
    /\ result.status = "ok"
    /\ Len(GetPipelineBuffers(pipelineMetadata, result.pipeline)) = 2

\* C2: for a vertex entry point whose declared locations are not exactly
\* {0,1,2}, render-pipeline construction fails with the unsupported-layout
\* error, and no buffer layouts and no pipeline are produced.
C2_RejectsOtherLocationSets ==
    (RenderReachedAttributes /\ DeclaredLocations # { 0, 1, 2 } /\ DeclaredLocations # {}) =>
        /\ result.status = "error"
        /\ result.error = "Missing required vertex attributes"
        /\ ~layouts.ok
        /\ result.pipeline \notin DOMAIN pipelineMetadata

\* The source has the marker its kind needs: for compute a compute marker
\* followed, somewhere, by fn and a name; for render both stage markers
HasMarker(c, marker) == \E i \in 1 .. Len(c) : c[i].k = marker

HasNeededMarkers(c, type) ==
    IF type = "compute" THEN ComputeMatch(c) # {}
    ELSE HasMarker(c, "@vertex") /\ HasMarker(c, "@fragment")

EntryPointErrors ==
    { "Compute shader must contain @compute entry point",
      "Render shader must contain both @vertex and @fragment entry points" }

\* C3: parseEntryPoints fails exactly when the source lacks the marker its
\* kind needs, and returns the entry-point names in every other case.
C3_FailsExactlyWithoutMarker ==
    (lastCall.type # "none" /\ lastCall.env # "fetchFails") =>
        ((result.error \in EntryPointErrors) <=> ~HasNeededMarkers(code, lastCall.type))

\* C4 as claimed: with zero location-annotated parameters the attribute
\* extraction itself fails, and no render pipeline is created.
C4_ExtractionFails ==
    (RenderReachedAttributes /\ DeclaredLocations = {}) =>
        /\ ~extracted.ok
        /\ result.status = "error"

\* The parameters of the source that are commented out with "//"
CommentedOut == { i \in 1 .. Len(code) : code[i].k = "//@location" }

\* C4 as amended: with zero location-annotated parameters, and none that is
\* commented out, the attribute extraction returns the empty list,
\* createPipeline then throws the no-vertex-attributes error before any layout
\* is generated, and no pipeline and no metadata entry are created.
C4_EmptyListThenFactoryFails ==
    (RenderReachedAttributes /\ DeclaredLocations = {} /\ CommentedOut = {}) =>
        /\ extracted.ok
        /\ extracted.val = <<>>
        /\ ~layouts.ran
        /\ result.status = "error"
        /\ result.error = "No vertex attributes found in shader"
        /\ result.pipeline = 0
        /\ calls \notin DOMAIN pipelineMetadata

C4_Witness ==
    /\ RenderReachedAttributes
    /\ DeclaredLocations = {}
    /\ lastCall.env = "ok"
    /\ result.error = "No vertex attributes found in shader"

-----------------------------------------------------------------------------
(* computeBoids-hardcode.js: the vertex buffers of its render pipeline *)

HardcodeLayouts ==
    << [arrayStride |-> 4 * 4,
        stepMode    |-> "instance",
        attributes  |-> << [shaderLocation |-> 0, offset |-> 0, format |-> "float32x2"],
                           [shaderLocation |-> 1, offset |-> 2 * 4, format |-> "float32x2"] >>],
       [arrayStride |-> 2 * 4,
        stepMode    |-> "vertex",
        attributes  |-> << [shaderLocation |-> 2, offset |-> 0, format |-> "float32x2"] >>] >>

-----------------------------------------------------------------------------
(* The demos: state buffers and bind groups *)

Demos == { "boids", "hardcode", "life" }

Seeds == { <<0, 1, 2, 3>>, <<5, 0, 5, 0>> }

\* A buffer the host never wrote: the device zero-initialises it
Zeros == <<0, 0, 0, 0>>

NotCreated == [i \in { 0, 1 } |-> <<>>]

\* computeBoids: both buffers are mapped at creation and filled with the seed
BoidsParticleBuffers(data) == [i \in { 0, 1 } |-> data]

\* computeBoids-hardcode: both buffers are mapped and filled with the seed
HardcodeParticleBuffers(data) == [i \in { 0, 1 } |-> data]

\* Game of Life: only cellBuffers[0] is mapped and filled
LifeCellBuffers(data) == [i \in { 0, 1 } |-> IF i = 0 THEN data ELSE Zeros]

\* A bind group pairs the buffer at binding 1 (read) with the one at binding 2 (write)
BoidsBindGroupEntriesSame(i) == [read |-> i, write |-> i]

BoidsBindGroupEntries(i) == [read |-> i, write |-> (i + 1) % 2]

HardcodeBindGroupEntriesSwapped(i) == [read |-> (i + 1) % 2, write |-> i]

HardcodeBindGroupEntries(i) == [read |-> i, write |-> (i + 1) % 2]

LifeBindGroupEntries(i) == IF i = 0 THEN [read |-> 0, write |-> 1] ELSE [read |-> 1, write |-> 0]

BindGroupsOf(d) ==
    [i \in { 0, 1 } |-> CASE d = "boids"    -> BoidsBindGroupEntries(i)
                          [] d = "hardcode" -> HardcodeBindGroupEntries(i)
                          [] OTHER          -> LifeBindGroupEntries(i)]

BuffersOf(d, data) ==
    CASE d = "boids"    -> BoidsParticleBuffers(data)
      [] d = "hardcode" -> HardcodeParticleBuffers(data)
      [] OTHER          -> LifeCellBuffers(data)

\* The compute shader of the end-to-end scenario: it adds 1 to each 32-bit
\* element (the seeds and MaxFrames keep every element far below 2^32)
Kernel(x) == x + 1

\* One dispatch over a bind group: the device reads the buffer at binding 1
\* and writes the result of the shader into the buffer at binding 2
Dispatch(bufs, group) ==
    [bufs EXCEPT ![group.write] = [i \in 1 .. Len(bufs[group.read]) |-> Kernel(bufs[group.read][i])]]

-----------------------------------------------------------------------------
(* The demos: the host side of a frame *)

\* The part of the state the host's handlers read and write, as one record;
\* threw says that the handler ended by throwing
Host ==
    [t |-> t, queue |-> queue, encoded |-> encoded, submitted |-> submitted,
     lastBatch |-> lastBatch,
     pending |-> pending, rafRequests |-> rafRequests, frameLog |-> frameLog,
     resolved |-> resolved, stopRequested |-> stopRequested,
     validationErrors |-> validationErrors,
     shouldContinueRendering |-> shouldContinueRendering, errorOccurred |-> errorOccurred,
     destroyed |-> destroyed, unhandledRejections |-> unhandledRejections,
     uncaughtErrors |-> uncaughtErrors, errorOutput |-> errorOutput, failCalls |-> failCalls,
     threw |-> FALSE]

Commit(h) ==
    /\ t' = h.t
    /\ queue' = h.queue
    /\ encoded' = h.encoded
    /\ submitted' = h.submitted
    /\ lastBatch' = h.lastBatch
    /\ pending' = h.pending
    /\ rafRequests' = h.rafRequests
    /\ frameLog' = h.frameLog
    /\ resolved' = h.resolved
    /\ stopRequested' = h.stopRequested
    /\ validationErrors' = h.validationErrors
    /\ shouldContinueRendering' = h.shouldContinueRendering
    /\ errorOccurred' = h.errorOccurred
    /\ destroyed' = h.destroyed
    /\ unhandledRejections' = h.unhandledRejections
    /\ uncaughtErrors' = h.uncaughtErrors
    /\ errorOutput' = h.errorOutput
    /\ failCalls' = h.failCalls

NoBatch == [frame |-> -1, group |-> 0, renderFrom |-> 0, workgroups |-> <<>>]

\* A variant of fail that reports and returns
DoFailReturns(h) == [h EXCEPT !.errorOutput = Fail(@), !.failCalls = @ + 1]

\* fail(message): report, then throw
DoFail(h) == [h EXCEPT !.errorOutput = Fail(@), !.failCalls = @ + 1, !.threw = TRUE]

\* console.error outside fail
DoLog(h) == [h EXCEPT !.errorOutput.logs = @ + 1]

\* The resources computeBoids holds in its function-scope variables once init
\* has created them (device is shadowed by the const of line 82 and stays
\* undefined), and those among them that have destroy or unconfigure
BoidsResources ==
    { "context", "particleBuffer0", "particleBuffer1", "spriteVertexBuffer",
      "simParamBuffer", "renderPipeline", "computePipeline" }

\* The order of the resources array of handleCriticalError
ReleaseOrder ==
    <<"context", "particleBuffer0", "particleBuffer1", "spriteVertexBuffer", "simParamBuffer",
      "renderPipeline", "computePipeline">>

\* A variant in which every resource has a destroy method
ReleasableAll(r) == TRUE

\* Buffers have destroy and the canvas context has unconfigure; pipeline
\* objects have neither
Releasable(r) == r \notin { "renderPipeline", "computePipeline" }

\* The release calls the cleanup loop attempts, and those that throw
Attempted(held) == SelectSeq(ReleaseOrder, LAMBDA r : r \in held /\ Releasable(r))

\* The sets of resources whose release may throw
ReleaseFaults == { {}, { "particleBuffer0" }, { "context" } }

\* computeBoids's handleCriticalError; held is the set of resources assigned.
\* A release that throws is caught and logged, and the loop goes on.  The
\* console.error after the fail call runs only if fail returns
HandleCriticalError(h, held) ==
    IF h.errorOccurred THEN h
    ELSE LET tried  == Attempted(held)
             thrown == SelectSeq(tried, LAMBDA r : r \in faulty)
             failed == DoFail([h EXCEPT !.errorOccurred = TRUE,
                                        !.shouldContinueRendering = FALSE,
                                        !.pending = 0,
                                        !.destroyed = @ \o SelectSeq(tried, LAMBDA r : r \notin faulty),
                                        !.errorOutput.logs = @ + Len(thrown)])
         IN  IF failed.threw THEN failed ELSE DoLog(failed)

\* A variant of the running check that lets every frame through
ShouldRunAlways(h) == TRUE

\* shouldContinueRendering && !errorOccurred
ShouldRun(h) == h.shouldContinueRendering /\ ~h.errorOccurred

BoidsAdvance(n) == n + 1

\* A variant that advances the counter twice
HardcodeAdvanceTwice(n) == n + 2

HardcodeAdvance(n) == n + 1

\* A variant of the parity flip that leaves step as it is
LifeAdvanceStuck(step) == step

LifeAdvance(step) == 1 - step

\* An encoder whose finished batch never reaches the queue
SubmitNothing(h, batch) == [h EXCEPT !.encoded = @ + 1]

\* A queue that takes the newest batch in front of the older ones
SubmitInFront(h, batch) ==
    [h EXCEPT !.queue = <<batch>> \o @, !.encoded = @ + 1, !.submitted = @ + 1,
              !.lastBatch = batch]

\* commandEncoder.finish() and device.queue.submit of the batch that holds
\* the frame's two passes
Submit(h, batch) ==
    [h EXCEPT !.queue = Append(@, batch), !.encoded = @ + 1, !.submitted = @ + 1,
              !.lastBatch = batch]

\* A frame that throws in the submission has finished encoding
Encoded(h, thrownAt) == IF thrownAt = "submit" THEN [h EXCEPT !.encoded = @ + 1] ELSE h

\* A variant that requests two callbacks
RequestFrameTwice(h) == [h EXCEPT !.pending = @ + 2, !.rafRequests = @ + 2]

RequestFrame(h) == [h EXCEPT !.pending = @ + 1, !.rafRequests = @ + 1]

\* Where a frame may throw: nowhere, while it acquires the surface view, or
\* in the submission
ThrowPoints == { "none", "view", "submit" }

\* Element counts and the workgroup sizes the host divides them by
NumParticles == 1500

BoidsWorkgroupSize == 64

GridSize == 64

LifeWorkgroupSize == 8

\* A variant of Math.ceil that rounds down
MathFloorOfQuotient(n, d) == n \div d

\* Math.ceil(n / d) for positive integers
MathCeilOfQuotient(n, d) == IF n % d = 0 THEN n \div d ELSE n \div d + 1

\* dispatchWorkgroups(x, y) takes unsigned integers: a quotient that is not
\* whole is truncated by the argument conversion
Truncated(n, d) == n \div d

\* The workgroup counts of one dispatch, one per dimension given
BoidsWorkgroups == <<MathCeilOfQuotient(NumParticles, BoidsWorkgroupSize)>>

HardcodeWorkgroups == <<MathCeilOfQuotient(NumParticles, BoidsWorkgroupSize)>>

LifeWorkgroups == <<Truncated(GridSize, LifeWorkgroupSize), Truncated(GridSize, LifeWorkgroupSize)>>

\* The calls of one run of a frame function, in the order of the source:
\* computeBoids and computeBoids-hardcode assign the surface view first
BoidsOpsAdvanceFirst ==
    <<"getCurrentTexture", "createCommandEncoder", "computePass", "renderPass", "finish",
      "advance", "submit", "requestAnimationFrame">>

BoidsOps ==
    <<"getCurrentTexture", "createCommandEncoder", "computePass", "renderPass", "finish",
      "submit", "advance", "requestAnimationFrame">>

HardcodeOps ==
    <<"getCurrentTexture", "createCommandEncoder", "computePass", "renderPass", "finish",
      "submit", "advance", "requestAnimationFrame">>

\* Game of Life takes the surface view inside the render pass descriptor
LifeOps ==
    <<"createCommandEncoder", "computePass", "getCurrentTexture", "renderPass", "finish",
      "submit", "advance", "requestAnimationFrame">>

\* loadOp of the render pass descriptor, the same in the three demos
LoadOp == "clear"

\* One logged call of frame n; a render pass records its loadOp and the frame
\* in which its target view was acquired
FrameOp(op, n) ==
    [op |-> op, frame |-> n, loadOp |-> IF op = "renderPass" THEN LoadOp ELSE ""]

IndexOf(ops, op) == CHOOSE i \in 1 .. Len(ops) : ops[i] = op

\* The calls a frame made before it threw, or all of them up to last
CallsMade(ops, thrownAt, last) ==
    CASE thrownAt = "view"   -> IndexOf(ops, "getCurrentTexture") - 1
      [] thrownAt = "submit" -> IndexOf(ops, "finish")
      [] OTHER               -> IndexOf(ops, last)

WithLog(h, n, ops, k) == [h EXCEPT !.frameLog = [i \in 1 .. k |-> FrameOp(ops[i], n)]]

\* computeBoids's frame
BoidsFrame(h, thrownAt, held) ==
    IF ~ShouldRun(h) THEN [h EXCEPT !.frameLog = <<>>]
    ELSE IF thrownAt # "none"
    THEN HandleCriticalError(
             Encoded(WithLog(h, h.submitted, BoidsOps, CallsMade(BoidsOps, thrownAt, "")),
                     thrownAt), held)
    ELSE LET batch == [frame |-> h.submitted, group |-> h.t % 2, renderFrom |-> (h.t + 1) % 2,
                       workgroups |-> BoidsWorkgroups]
             h1    == [Submit(h, batch) EXCEPT !.t = BoidsAdvance(@)]
         IN  IF ShouldRun(h1)
             THEN RequestFrame(WithLog(h1, h.submitted, BoidsOps,
                                       CallsMade(BoidsOps, "none", "requestAnimationFrame")))
             ELSE WithLog(h1, h.submitted, BoidsOps, CallsMade(BoidsOps, "none", "advance"))

\* computeBoids-hardcode's frame: nothing catches what it throws
HardcodeFrame(h, thrownAt) ==
    IF thrownAt # "none"
    THEN [Encoded(WithLog(h, h.submitted, HardcodeOps, CallsMade(HardcodeOps, thrownAt, "")),
                  thrownAt) EXCEPT !.threw = TRUE]
    ELSE LET batch == [frame |-> h.submitted, group |-> h.t % 2, renderFrom |-> (h.t + 1) % 2,
                       workgroups |-> HardcodeWorkgroups]
         IN  RequestFrame(WithLog([Submit(h, batch) EXCEPT !.t = HardcodeAdvance(@)],
                                  h.submitted, HardcodeOps,
                                  CallsMade(HardcodeOps, "none", "requestAnimationFrame")))

\* Game of Life's frame: the render pass draws cellBuffers[step % 2]
LifeFrame(h, thrownAt) ==
    IF thrownAt # "none"
    THEN [Encoded(WithLog(h, h.submitted, LifeOps, CallsMade(LifeOps, thrownAt, "")),
                  thrownAt) EXCEPT !.threw = TRUE]
    ELSE LET batch == [frame |-> h.submitted, group |-> h.t % 2, renderFrom |-> h.t % 2,
                       workgroups |-> LifeWorkgroups]
         IN  RequestFrame(WithLog([Submit(h, batch) EXCEPT !.t = LifeAdvance(@)],
                                  h.submitted, LifeOps,
                                  CallsMade(LifeOps, "none", "requestAnimationFrame")))

FrameOf(d, h, thrownAt, held) ==
    CASE d = "boids"    -> BoidsFrame(h, thrownAt, held)
      [] d = "hardcode" -> HardcodeFrame(h, thrownAt)
      [] OTHER          -> LifeFrame(h, thrownAt)

\* An exception that leaves a callback uncaught becomes a window error event
Uncaught(h) ==
    IF h.threw THEN [h EXCEPT !.uncaughtErrors = @ + 1, !.threw = FALSE] ELSE h

\* An exception thrown inside a listener of the error event is not dispatched again
Swallowed(h) == [h EXCEPT !.threw = FALSE]

\* The resources computeBoids holds now
Held == IF demo # "boids" THEN {}
        ELSE IF pc = "running" THEN BoidsResources
        ELSE { "context" }

-----------------------------------------------------------------------------
(* The demos: actions *)

StartEnvironments == { "ok", "fetchFails", "pipelineFails" }

\* The three demos import webgpu-utils.js, which registers the window's
\* listeners on import and the device guard in quitIfWebGPUNotAvailable
ImportsUtils == demo \in Demos

\* The rest of computeBoids's init once the device is configured
BoidsStart(env, thrownAt) ==
    IF env = "ok"
    THEN LET h == BoidsFrame(Host, thrownAt, BoidsResources)
         IN  /\ pc' = "running"
             /\ particleBuffers' = BoidsParticleBuffers(seed)
             /\ bindGroups' = BindGroupsOf("boids")
             /\ unloadHooked' = ~h.threw
             /\ Commit(Swallowed(h))
    ELSE LET loaded == IF env = "fetchFails" THEN Swallowed(DoFail(Host)) ELSE Host
         IN  /\ pc' = "failed"
             /\ Commit(Swallowed(HandleCriticalError(loaded, { "context" })))
             /\ UNCHANGED <<particleBuffers, bindGroups, unloadHooked>>

\* The rest of init in computeBoids-hardcode and Game of Life
PlainStart(env) ==
    IF env = "ok"
    THEN /\ pc' = "running"
         /\ particleBuffers' = BuffersOf(demo, seed)
         /\ bindGroups' = BindGroupsOf(demo)
         /\ Commit(RequestFrame(Host))
         /\ UNCHANGED unloadHooked
    ELSE LET loaded == IF env = "fetchFails" THEN Swallowed(DoFail(Host)) ELSE Host
         IN  /\ pc' = "failed"
             /\ Commit(DoLog(loaded))
             /\ UNCHANGED <<particleBuffers, bindGroups, unloadHooked>>

\* A variant of init that may run again while the loop runs, writing the seed
\* into the state buffers once more
StartAgain(env, thrownAt) ==
    /\ demo \in Demos
    /\ pc \in { "init", "running" }
    /\ env = "ok"
    /\ pc' = "running"
    /\ particleBuffers' = BuffersOf(demo, seed)
    /\ bindGroups' = BindGroupsOf(demo)
    /\ Commit(IF pc = "init" THEN RequestFrame(Host) ELSE Host)
    /\ UNCHANGED <<pipeVars, demo, seed, faulty, executed, display, unloadHooked, notifications,
                   externals, closes, deviceLost>>

Start(env, thrownAt) ==
    /\ demo \in Demos
    /\ pc = "init"
    /\ IF demo = "boids" THEN BoidsStart(env, thrownAt) ELSE PlainStart(env)
    /\ UNCHANGED <<pipeVars, demo, seed, faulty, executed, display, notifications, externals, closes,
                   deviceLost>>

\* The browser runs a requested animation-frame callback
Frame(thrownAt) ==
    /\ demo \in Demos
    /\ pc = "running"
    /\ pending > 0
    /\ submitted < MaxFrames
    /\ Commit(Uncaught(FrameOf(demo, [Host EXCEPT !.pending = @ - 1], thrownAt, Held)))
    /\ UNCHANGED <<pipeVars, demo, seed, faulty, pc, particleBuffers, bindGroups, executed, display,
                   unloadHooked, notifications, externals, closes, deviceLost>>

\* The device executes the oldest submitted batch: the compute pass, then the
\* render pass, which draws the instance buffer it was given
GpuExecute ==
    /\ demo \in Demos
    /\ queue # <<>>
    /\ ~deviceLost
    /\ LET batch == Head(queue)
           after == Dispatch(particleBuffers, bindGroups[batch.group])
       IN  /\ particleBuffers' = after
           /\ display' = after[batch.renderFrom]
    /\ queue' = Tail(queue)
    /\ executed' = executed + 1
    /\ UNCHANGED <<pipeVars, failVars, demo, seed, faulty, pc, bindGroups, t, encoded, submitted,
                   lastBatch, pending, rafRequests, frameLog, resolved, stopRequested,
                   validationErrors, shouldContinueRendering, errorOccurred,
                   destroyed, unloadHooked, unhandledRejections, uncaughtErrors, notifications,
                   externals, closes, deviceLost>>

\* The page is about to unload
BeforeUnload ==
    /\ unloadHooked
    /\ ~errorOccurred
    /\ Commit(Uncaught(HandleCriticalError([Host EXCEPT !.stopRequested = TRUE], Held)))
    /\ UNCHANGED <<pipeVars, demo, seed, faulty, pc, particleBuffers, bindGroups, executed, display,
                   unloadHooked, notifications, externals, closes, deviceLost>>

\* Code outside the demo throws an exception nothing catches
ExternalError ==
    /\ ImportsUtils
    /\ notifications + externals < MaxNotifications
    /\ externals' = externals + 1
    /\ uncaughtErrors' = uncaughtErrors + 1
    /\ UNCHANGED <<pipeVars, failVars, demo, seed, faulty, pc, particleBuffers, bindGroups, t, queue,
                   encoded, submitted, executed, lastBatch, display, pending, rafRequests,
                   frameLog, resolved, stopRequested, validationErrors,
                   shouldContinueRendering, errorOccurred, destroyed, unloadHooked,
                   unhandledRejections, notifications, closes, deviceLost>>

\* The second listener of an event, present in computeBoids only
BoidsListener(h) == IF demo = "boids" THEN HandleCriticalError(h, Held) ELSE h

\* The window's error event: the listener of webgpu-utils.js calls fail, the
\* one of computeBoids calls handleCriticalError
ErrorEvent ==
    /\ uncaughtErrors > 0
    /\ Commit(Swallowed(BoidsListener(Swallowed(DoFail([Host EXCEPT !.uncaughtErrors = @ - 1])))))
    /\ UNCHANGED <<pipeVars, demo, seed, faulty, pc, particleBuffers, bindGroups, executed, display,
                   unloadHooked, notifications, externals, closes, deviceLost>>

\* The window's unhandledrejection event, with the same two listeners; what
\* they throw is uncaught
RejectionEvent ==
    /\ unhandledRejections > 0
    /\ Commit(Uncaught(BoidsListener(Uncaught(DoFail([Host EXCEPT !.unhandledRejections = @ - 1])))))
    /\ UNCHANGED <<pipeVars, demo, seed, faulty, pc, particleBuffers, bindGroups, executed, display,
                   unloadHooked, notifications, externals, closes, deviceLost>>

\* device.lost resolves: its continuation calls fail, whose exception rejects
\* the promise the continuation returned
DeviceLost ==
    /\ ImportsUtils
    /\ ~deviceLost
    /\ notifications + externals < MaxNotifications
    /\ deviceLost' = TRUE
    /\ notifications' = notifications + 1
    /\ Commit([Swallowed(DoFail(Host)) EXCEPT !.unhandledRejections = @ + 1])
    /\ UNCHANGED <<pipeVars, demo, seed, faulty, pc, particleBuffers, bindGroups, executed, display,
                   unloadHooked, externals, closes>>

\* The device raises uncapturederror: the listener of webgpu-utils.js calls
\* fail, the one of computeBoids logs the error
UncapturedError ==
    /\ ImportsUtils
    /\ notifications + externals < MaxNotifications
    /\ notifications' = notifications + 1
    /\ LET h == Uncaught(DoFail(Host))
       IN  Commit(IF demo = "boids" THEN DoLog(h) ELSE h)
    /\ UNCHANGED <<pipeVars, demo, seed, faulty, pc, particleBuffers, bindGroups, executed, display,
                   unloadHooked, externals, closes, deviceLost>>

\* computeBoids pushes a validation error scope after it gets the device and
\* never pops it: the scope captures every validation error raised later
ScopePushed == demo = "boids"

\* The validation errors the open scope has captured
Captured == IF ScopePushed THEN validationErrors ELSE 0

\* The device raises a validation error: in computeBoids the open scope
\* captures it and no event is fired; elsewhere it is an uncapturederror event
ValidationError ==
    /\ ImportsUtils
    /\ notifications + externals + Captured < MaxNotifications
    /\ notifications' = IF ScopePushed THEN notifications ELSE notifications + 1
    /\ LET h == [Host EXCEPT !.validationErrors = @ + 1]
       IN  Commit(IF ScopePushed THEN h ELSE Uncaught(DoFail(h)))
    /\ UNCHANGED <<pipeVars, demo, seed, faulty, pc, particleBuffers, bindGroups, executed, display,
                   unloadHooked, externals, closes, deviceLost>>

\* The operator closes the error dialog
CloseDialog ==
    /\ errorOutput.dialogOpen
    /\ errorOutput' = [errorOutput EXCEPT !.dialogOpen = FALSE]
    /\ closes' = closes + 1
    /\ UNCHANGED <<pipeVars, failCalls, demo, seed, faulty, pc, particleBuffers, bindGroups, executed,
                   display, unloadHooked, notifications, externals, deviceLost, hostVars>>

-----------------------------------------------------------------------------
(* Specifications *)

\* No createPipeline call is modelled
PipeIdle ==
    /\ code = <<>>
    /\ decl = <<>>
    /\ calls = 0
    /\ lastCall = [type |-> "none", env |-> "ok"]
    /\ result = NoResult
    /\ extracted = NotRun
    /\ layouts = NotRun
    /\ pipelineMetadata = << >>
    /\ lookup = NoLookup

\* The state of a demo while init awaits its pipelines
LoopStart ==
    /\ pc = "init"
    /\ particleBuffers = NotCreated
    /\ bindGroups = << >>
    /\ t = 0
    /\ queue = <<>>
    /\ encoded = 0
    /\ submitted = 0
    /\ executed = 0
    /\ lastBatch = NoBatch
    /\ display = <<>>
    /\ pending = 0
    /\ rafRequests = 0
    /\ frameLog = <<>>
    /\ resolved = 0
    /\ stopRequested = FALSE
    /\ validationErrors = 0
    /\ shouldContinueRendering = TRUE
    /\ errorOccurred = FALSE
    /\ destroyed = <<>>
    /\ unloadHooked = FALSE
    /\ unhandledRejections = 0
    /\ uncaughtErrors = 0
    /\ notifications = 0
    /\ externals = 0
    /\ closes = 0
    /\ deviceLost = FALSE

PipeInit ==
    /\ \E sh \in Shaders : code = sh.code /\ decl = sh.decl
    /\ calls = 0
    /\ lastCall = [type |-> "none", env |-> "ok"]
    /\ result = NoResult
    /\ extracted = NotRun
    /\ layouts = NotRun
    /\ pipelineMetadata = << >>
    /\ lookup = NoLookup
    /\ errorOutput = PipelineErrorOutput
    /\ failCalls = 0
    /\ demo = "boids"
    /\ seed = <<0, 1, 2, 3>>
    /\ faulty = {}
    /\ LoopStart

PipeNext ==
    \/ \E type \in PipeTypes, env \in Environments : CreatePipeline(type, env)
    \/ \E pipeline \in 0 .. MaxCalls : Lookup(pipeline)

SpecPipeline == PipeInit /\ [][PipeNext]_vars

\* computeBoids imports the module that exports createPipeline, whose fail
\* writes to the console; the other two demos run with either module
Init ==
    /\ PipeIdle
    /\ demo \in Demos
    /\ seed \in Seeds
    /\ faulty \in (IF demo = "boids" THEN ReleaseFaults ELSE { {} })
    /\ \E impl \in { "dialog", "console" } :
          /\ demo = "boids" => impl = "console"
          /\ errorOutput = NewErrorOutput(impl)
    /\ failCalls = 0
    /\ LoopStart

Next ==
    \/ \E env \in StartEnvironments, thrownAt \in ThrowPoints : Start(env, thrownAt)
    \/ \E thrownAt \in ThrowPoints : Frame(thrownAt)
    \/ GpuExecute
    \/ BeforeUnload
    \/ ExternalError
    \/ ErrorEvent
    \/ RejectionEvent
    \/ DeviceLost
    \/ UncapturedError
    \/ ValidationError
    \/ CloseDialog

Spec == Init /\ [][Next]_vars

-----------------------------------------------------------------------------
(* Claims about the demos' frame loops *)

Constructed == pc = "running"

\* C5: in each demo, once the bind groups are constructed, the bind group at
\* index p has buffer p as its read view and buffer 1-p as its write view, for
\* both parities and in every later state; so the two views of one bind group
\* are never the same buffer and the pairing never changes.
C5_BindGroupPairing ==
    Constructed =>
        \A p \in { 0, 1 } : bindGroups[p] = [read |-> p, write |-> 1 - p]

\* Game of Life has dispatched with both of its bind groups
C5_Witness == Constructed /\ demo = "life" /\ executed = 2

\* C6: starting from parity 0, after N completed (submitted) frames the
\* counter that selects the compute bind group has parity N mod 2, and the
\* N-th frame dispatched with bind group N mod 2.
C6_ParityIsFrameCountMod2 ==
    /\ t % 2 = submitted % 2
    /\ lastBatch # NoBatch => lastBatch.group = lastBatch.frame % 2
    /\ \A i \in 1 .. Len(queue) : queue[i].group = queue[i].frame % 2

\* Game of Life has completed three frames
C6_Witness == demo = "life" /\ submitted = 3 /\ lastBatch.frame = 2

\* C7: in every frame of every demo the render pass draws from the buffer the
\* frame's compute dispatch wrote.
C7_RenderDrawsWrittenBuffer ==
    lastBatch # NoBatch => lastBatch.renderFrom = bindGroups[lastBatch.group].write

\* C8: two failure notifications of the device in succession, with the dialog
\* (if any) not closed in between, leave exactly one report on the error channel.
C8_TwoNotificationsOneReport ==
    (notifications = 2 /\ externals = 0 /\ closes = 0) => Reports(errorOutput) = 1

\* C9: a dispatch with the bind group of parity p leaves buffer p as it was
\* and writes the incremented elements into buffer 1-p; with seed [0,1,2,3]
\* the first dispatch leaves buffer 0 = [0,1,2,3] and makes buffer 1 = [1,2,3,4].
C9_DispatchWritesOnlyOtherBuffer ==
    [][executed' = executed + 1 =>
          LET p == Head(queue).group
          IN  /\ particleBuffers'[p] = particleBuffers[p]
              /\ particleBuffers'[1 - p] = [i \in 1 .. 4 |-> particleBuffers[p][i] + 1]
              /\ (executed = 0 /\ particleBuffers[0] = <<0, 1, 2, 3>>) =>
                     /\ particleBuffers'[0] = <<0, 1, 2, 3>>
                     /\ particleBuffers'[1] = <<1, 2, 3, 4>>]_vars

\* computeBoids after its first dispatch on the seed [0,1,2,3]
C9_Witness ==
    /\ demo = "boids"
    /\ seed = <<0, 1, 2, 3>>
    /\ executed = 1
    /\ particleBuffers[0] = <<0, 1, 2, 3>>
    /\ particleBuffers[1] = <<1, 2, 3, 4>>

RunningFlagCleared == ~shouldContinueRendering \/ errorOccurred

\* C10: from a state in which the running flag is cleared, no step encodes or
\* submits a command batch or requests an animation frame.
C10_NoFrameAfterStop ==
    [][RunningFlagCleared =>
          /\ encoded' = encoded
          /\ submitted' = submitted
          /\ rafRequests' = rafRequests]_vars

\* computeBoids whose flag was cleared while init awaited: its first frame()
\* call ran, returned at the check and left nothing encoded
C10_Witness ==
    /\ demo = "boids"
    /\ Constructed
    /\ unloadHooked
    /\ RunningFlagCleared
    /\ encoded = 0
    /\ rafRequests = 0

\* C11: once the device-loss notification has been delivered, no step submits
\* a command batch to the device queue.
C11_NoSubmitAfterDeviceLoss ==
    [][deviceLost => submitted' = submitted]_vars

\* C12: a run whose only failure is one startup failure (a shader that fails
\* to load, or a pipeline that cannot be created) has invoked fail exactly once.
C12_FailOncePerFailure ==
    (pc = "failed" /\ notifications = 0 /\ externals = 0) => failCalls = 1

\* C13: in every demo, once the buffers are constructed and before the device
\* has executed any dispatch, both state buffers hold the seed.
C13_BothBuffersSeeded ==
    (Constructed /\ executed = 0) =>
        /\ particleBuffers[0] = seed
        /\ particleBuffers[1] = seed

-----------------------------------------------------------------------------
(* The bitonic display page: one element buffer, filled by the compute pass
   and drawn by the render pass of the same batch *)

\* queue.writeBuffer uploads the elements into the single element buffer
BitonicElementBuffer(data) == [i \in { 0 } |-> data]

\* computeBindGroup binds the element buffer read_write
BitonicBindGroups == [i \in { 0 } |-> [read |-> 0, write |-> 0]]

\* The constructor's sizes
TotalElements == 1024

BitonicWorkgroupSize == 256

BitonicWorkgroups == <<MathCeilOfQuotient(TotalElements, BitonicWorkgroupSize)>>

\* The compute shader of the page: data[idx] = idx
GradientFill(data) == [i \in 1 .. Len(data) |-> i - 1]

\* sort(): an async function without await; it encodes and submits one batch
\* and returns a resolved promise, or a rejected one if a call throws
BitonicSort(h, thrownAt) ==
    IF thrownAt # "none" THEN DoLog(Encoded(h, thrownAt))
    ELSE LET batch == [frame |-> h.submitted, group |-> 0, renderFrom |-> 0,
                       workgroups |-> BitonicWorkgroups]
         IN  [Submit(h, batch) EXCEPT !.resolved = @ + 1]

\* main(): init, then the first frame() call
BitonicStart(env, thrownAt) ==
    /\ demo = "bitonic"
    /\ pc = "init"
    /\ IF env = "ok"
       THEN /\ pc' = "running"
            /\ particleBuffers' = BitonicElementBuffer(seed)
            /\ bindGroups' = BitonicBindGroups
            /\ Commit(BitonicSort(Host, thrownAt))
       ELSE /\ pc' = "failed"
            /\ Commit(DoLog(Host))
            /\ UNCHANGED <<particleBuffers, bindGroups>>
    /\ UNCHANGED <<pipeVars, demo, seed, faulty, executed, display, unloadHooked, notifications,
                   externals, closes, deviceLost>>

\* The continuation of sort()'s promise requests the next frame
BitonicThen ==
    /\ demo = "bitonic"
    /\ resolved > 0
    /\ Commit(RequestFrame([Host EXCEPT !.resolved = @ - 1]))
    /\ UNCHANGED <<pipeVars, demo, seed, faulty, pc, particleBuffers, bindGroups, executed,
                   display, unloadHooked, notifications, externals, closes, deviceLost>>

\* The browser runs the requested frame callback
BitonicFrame(thrownAt) ==
    /\ demo = "bitonic"
    /\ pc = "running"
    /\ pending > 0
    /\ submitted < MaxFrames
    /\ Commit(BitonicSort([Host EXCEPT !.pending = @ - 1], thrownAt))
    /\ UNCHANGED <<pipeVars, demo, seed, faulty, pc, particleBuffers, bindGroups, executed,
                   display, unloadHooked, notifications, externals, closes, deviceLost>>

\* The device executes the oldest batch of the page
BitonicExecute ==
    /\ demo = "bitonic"
    /\ queue # <<>>
    /\ particleBuffers' = [particleBuffers EXCEPT ![0] = GradientFill(@)]
    /\ display' = GradientFill(particleBuffers[0])
    /\ queue' = Tail(queue)
    /\ executed' = executed + 1
    /\ UNCHANGED <<pipeVars, failVars, demo, seed, faulty, pc, bindGroups, t, encoded, submitted,
                   lastBatch, pending, rafRequests, frameLog, resolved, stopRequested,
                   validationErrors, shouldContinueRendering, errorOccurred, destroyed,
                   unloadHooked, unhandledRejections, uncaughtErrors, notifications, externals,
                   closes, deviceLost>>

BitonicInit ==
    /\ PipeIdle
    /\ demo = "bitonic"
    /\ seed \in Seeds
    /\ faulty = {}
    /\ errorOutput = NewErrorOutput("console")
    /\ failCalls = 0
    /\ LoopStart

FramesInit == Init \/ BitonicInit

FramesNext ==
    \/ Next
    \/ \E env \in { "ok", "fetchFails" }, thrownAt \in ThrowPoints : BitonicStart(env, thrownAt)
    \/ BitonicThen
    \/ \E thrownAt \in ThrowPoints : BitonicFrame(thrownAt)
    \/ BitonicExecute

\* The three demos and the bitonic display page
SpecFrames == FramesInit /\ [][FramesNext]_vars

-----------------------------------------------------------------------------
(* Claims about the frame protocol *)

\* C15 as stated: in computeBoids every batch the encoder has finished has
\* been submitted.
C15_EncodedAlwaysSubmitted == demo = "boids" => encoded = submitted

\* C15: in computeBoids a step that finishes encoding a batch either submits
\* that batch in the same step, behind the batches already queued, or is a
\* frame whose submission threw: then the batch is dropped and the same step
\* runs handleCriticalError, which clears the running flag, cancels the
\* pending callback and reports. Nothing else separates encoding from
\* submission.
C15_EncodedThenSubmittedOrFailed ==
    [][(demo = "boids" /\ encoded' # encoded) =>
          /\ encoded' = encoded + 1
          /\ \/ /\ submitted' = submitted + 1
                /\ lastBatch'.frame = submitted
                /\ queue' = Append(queue, lastBatch')
             \/ /\ submitted' = submitted
                /\ queue' = queue
                /\ ~errorOccurred /\ errorOccurred'
                /\ ~shouldContinueRendering'
                /\ pending' = 0
                /\ failCalls' = failCalls + 1]_vars

\* computeBoids after a frame whose submission threw
C15_Witness ==
    /\ demo = "boids"
    /\ submitted = 1
    /\ encoded = 2
    /\ errorOccurred

Positions(log, op) == { i \in 1 .. Len(log) : log[i].op = op }

Once(log, op) == Cardinality(Positions(log, op)) = 1

Before(log, a, b) == \A i \in Positions(log, a), j \in Positions(log, b) : i < j

FrameCompleted == Positions(frameLog, "submit") # {}

\* What the frames of the three demos have in common: one compute pass, then
\* one render pass that clears, on a view acquired in the same frame before the
\* render pass begins, then one submission of the one finished batch, then the
\* counter's advance, and at last the request for the next callback
CommonProtocol(log) ==
    /\ \A op \in { "getCurrentTexture", "createCommandEncoder", "computePass", "renderPass",
                   "finish", "submit", "advance" } : Once(log, op)
    /\ Cardinality(Positions(log, "requestAnimationFrame")) <= 1
    /\ Before(log, "computePass", "renderPass")
    /\ Before(log, "getCurrentTexture", "renderPass")
    /\ Before(log, "renderPass", "finish")
    /\ Before(log, "finish", "submit")
    /\ Before(log, "submit", "advance")
    /\ Before(log, "advance", "requestAnimationFrame")
    /\ \A i \in Positions(log, "renderPass") :
          /\ log[i].loadOp = "clear"
          /\ \A j \in Positions(log, "getCurrentTexture") : log[j].frame = log[i].frame

\* C16 as stated: every completed frame of every demo acquires the surface
\* view, then encodes the compute pass, then the render pass, then submits one
\* batch, then advances the counter, then requests the next callback.
C16_ProtocolOrder ==
    FrameCompleted =>
        /\ CommonProtocol(frameLog)
        /\ Before(frameLog, "getCurrentTexture", "computePass")

\* C16: every completed frame of every demo encodes one compute pass, then
\* one clearing render pass on the view acquired in that frame, submits both
\* as one batch, then advances the counter and only then requests the next
\* callback; computeBoids and computeBoids-hardcode acquire the view before the
\* compute pass, Game of Life acquires it after the compute pass.
C16_ProtocolOrderPerDemo ==
    FrameCompleted =>
        /\ CommonProtocol(frameLog)
        /\ demo \in { "boids", "hardcode" } => Before(frameLog, "getCurrentTexture", "computePass")
        /\ demo = "life" => Before(frameLog, "computePass", "getCurrentTexture")

\* computeBoids after its second completed frame, the next callback requested
C16_Witness ==
    /\ demo = "boids"
    /\ submitted = 2
    /\ Len(frameLog) = 8
    /\ frameLog[8].op = "requestAnimationFrame"
    /\ frameLog[1].frame = 1

\* C17: the frame counter changes only in a step that submits a batch, which
\* only the frame functions do; such a step advances the counter exactly once
\* (to t + 1, or to 1 - step in Game of Life); a frame that throws before its
\* submission, and every other handler, leaves the counter as it was.
C17_CounterChangesOncePerSubmittedFrame ==
    [][/\ submitted' = submitted => t' = t
       /\ submitted' # submitted =>
             /\ submitted' = submitted + 1
             /\ t' = IF demo = "life" THEN 1 - t ELSE t + 1]_vars

\* computeBoids-hardcode after two submitted frames and a frame that threw
C17_Witness ==
    /\ demo = "hardcode"
    /\ submitted = 2
    /\ t = 2
    /\ encoded = 3

-----------------------------------------------------------------------------
(* Claims about failure handling *)

FirstFailure == ~errorOccurred /\ errorOccurred'

\* C18 as stated: the step in which handleCriticalError first runs releases
\* every resource computeBoids holds, pipelines included, except those whose
\* release throws.
C18_ReleasesEverythingHeld ==
    [][FirstFailure =>
          \A r \in Held' : r \in Range(destroyed') \/ r \in faulty]_vars

\* C18: the step in which handleCriticalError first runs stops the loop,
\* releases each held state buffer, the per-vertex buffer, the parameter
\* buffer and the presentation surface exactly once, skipping only those whose
\* release throws, releases no pipeline, and still invokes fail; no later step
\* releases anything.
C18_ReleasesBuffersAndSurfaceOnce ==
    [][/\ FirstFailure =>
             /\ destroyed' =
                    SelectSeq(<<"context", "particleBuffer0", "particleBuffer1",
                                "spriteVertexBuffer", "simParamBuffer">>,
                              LAMBDA r : r \in Held' /\ r \notin faulty)
             /\ ~shouldContinueRendering'
             /\ pending' = 0
             /\ failCalls' > failCalls
             /\ Reports(errorOutput') > Reports(errorOutput)
       /\ errorOccurred => destroyed' = destroyed]_vars

\* computeBoids after a failure in which the release of one state buffer threw
C18_Witness ==
    /\ demo = "boids"
    /\ faulty = { "particleBuffer0" }
    /\ errorOccurred
    /\ destroyed = <<"context", "particleBuffer1", "spriteVertexBuffer", "simParamBuffer">>
    /\ errorOutput.logs = 1
    /\ failCalls >= 1

\* C19: once the device has raised a validation error, the failure has been
\* reported through fail and no step submits a further command batch.
C19_ValidationErrorStopsTheDemo ==
    [][validationErrors > 0 => (failCalls > 0 /\ submitted' = submitted)]_vars

\* C20: the step in which a stop is requested (the beforeunload listener runs)
\* does not put the loop into the failed state and reports nothing on the
\* error channel.
C20_StopIsNotAFailure ==
    [][(~stopRequested /\ stopRequested') =>
          /\ ~errorOccurred'
          /\ failCalls' = failCalls
          /\ errorOutput' = errorOutput]_vars


-----------------------------------------------------------------------------
(* Attribute types *)

\* The types typeToFormat has an entry for
RecognizedTypes ==
    { "f32", "vec2f", "vec3f", "vec4f", "i32", "vec2i", "vec3i", "vec4i",
      "u32", "vec2u", "vec3u", "vec4u" }

\* C21: every extracted attribute whose declared type is not recognised is
\* encoded as a 4-byte scalar float (format float32, byte size 4), and the
\* byte size of every extracted attribute is the size of its format.
C21_UnknownTypeIsFloat32 ==
    extracted.ran =>
        \A i \in 1 .. Len(extracted.val) :
            LET a == extracted.val[i]
            IN  /\ a.type \notin RecognizedTypes =>
                     /\ TypeToFormat(a.type) = "float32"
                     /\ a.bytesPerElement = 4
                /\ FormatSize(TypeToFormat(a.type)) = a.bytesPerElement


\* No two entries of a sequence of numbers are equal
Distinct(s) == \A i, j \in 1 .. Len(s) : i # j => s[i] # s[j]

\* The shader locations of all generated layouts, in order
RECURSIVE LayoutLocations(_)
LayoutLocations(ls) ==
    IF ls = <<>> THEN <<>>
    ELSE LET shaderLocation(a) == a.shaderLocation
         IN  Map(ls[1].attributes, shaderLocation) \o LayoutLocations(SubSeq(ls, 2, Len(ls)))

\* C22: whenever createPipeline returns a render pipeline, no two extracted
\* attributes and no two attributes of the generated layouts carry the same
\* shader location.
C22_LocationsUnique ==
    (lastCall.type = "render" /\ result.status = "ok") =>
        /\ LET location(a) == a.location IN Distinct(Map(extracted.val, location))
        /\ Distinct(LayoutLocations(GetPipelineBuffers(pipelineMetadata, result.pipeline)))


-----------------------------------------------------------------------------
(* Attribute extraction against the declared parameters *)

\* What the author declared in one parameter of the vertex entry point
Declared(tok) == [location |-> tok.loc, name |-> tok.name, type |-> tok.ty]

Entry(a) == [location |-> a.location, name |-> a.name, type |-> a.type]

\* How often x occurs in the sequence s
Count(s, x) == Cardinality({ i \in 1 .. Len(s) : s[i] = x })

\* C23: parseShaderLocations returns the attributes in ascending order of
\* location, with exactly one (location, name, type) entry for every
\* location-annotated parameter of the vertex entry point and no other entry.
C23_SortedEntriesOfTheParameters ==
    extracted.ran =>
        /\ \A i, j \in 1 .. Len(extracted.val) :
               i < j => extracted.val[i].location <= extracted.val[j].location
        /\ Len(extracted.val) = Len(decl)
        /\ \A i \in 1 .. Len(decl) :
               Count(Map(extracted.val, Entry), Declared(decl[i]))
                   = Count(Map(decl, Declared), Declared(decl[i]))


-----------------------------------------------------------------------------
(* Dispatch sizes *)

\* The element count and the workgroup size of the running page, per
\* dimension of its dispatch
ElementCounts ==
    CASE demo = "life"    -> <<GridSize, GridSize>>
      [] demo = "bitonic" -> <<TotalElements>>
      [] OTHER            -> <<NumParticles>>

WorkgroupSizes ==
    CASE demo = "life"    -> <<LifeWorkgroupSize, LifeWorkgroupSize>>
      [] demo = "bitonic" -> <<BitonicWorkgroupSize>>
      [] OTHER            -> <<BoidsWorkgroupSize>>

Covers(batch) ==
    /\ Len(batch.workgroups) = Len(ElementCounts)
    /\ \A d \in 1 .. Len(ElementCounts) :
           /\ batch.workgroups[d] * WorkgroupSizes[d] >= ElementCounts[d]
           /\ batch.workgroups[d] * WorkgroupSizes[d] < ElementCounts[d] + WorkgroupSizes[d]

\* C24: every submitted compute dispatch covers the full element count: in
\* each dimension the workgroups times the workgroup size are at least the
\* element count and less than the element count plus one workgroup.
C24_DispatchCoversAllElements ==
    /\ lastBatch # NoBatch => Covers(lastBatch)
    /\ \A i \in 1 .. Len(queue) : Covers(queue[i])

C24_Witness ==
    /\ demo = "boids"
    /\ executed >= 1
    /\ Len(queue) >= 1
    /\ lastBatch.workgroups = <<24>>


-----------------------------------------------------------------------------
(* Who changes the state buffers *)

\* C25: once the buffers are seeded, every step that changes the contents of
\* a state buffer is the device executing the oldest submitted batch; no host
\* handler runs in such a step.
C25_OnlyTheDeviceChangesStateBuffers ==
    [][(pc # "init" /\ particleBuffers' # particleBuffers) =>
           /\ queue # <<>>
           /\ queue' = Tail(queue)
           /\ executed' = executed + 1
           /\ <<t, encoded, submitted, pending, rafRequests, frameLog, failCalls>>'
                  = <<t, encoded, submitted, pending, rafRequests, frameLog, failCalls>>]_vars

C25_Witness ==
    /\ demo = "hardcode"
    /\ executed = 2
    /\ submitted = 3
    /\ particleBuffers # BuffersOf(demo, seed)


-----------------------------------------------------------------------------
(* The side table of pipelines *)

\* The layout list the last call built its pipeline with
BuiltWith == IF lastCall.type = "compute" THEN <<>> ELSE layouts.val

\* C26: createPipeline returns the device's pipeline object and records its
\* kind and layouts only in the side table: for the pipeline it returned the
\* getters give the requested kind and exactly the layout list it was built
\* with (empty for compute), for any other object they give 'unknown' and an
\* empty list, and a lookup never modifies the table.
C26_SideTableOnly ==
    /\ [](result.status = "ok" =>
             /\ result.pipeline = calls
             /\ GetPipelineType(pipelineMetadata, result.pipeline) = lastCall.type
             /\ GetPipelineBuffers(pipelineMetadata, result.pipeline) = BuiltWith)
    /\ []((lookup.made /\ lookup.pipeline = calls /\ result.status = "ok") =>
             /\ lookup.type = lastCall.type
             /\ lookup.buffers = BuiltWith)
    /\ []((lookup.made /\ (lookup.pipeline = 0 \/ result.status # "ok")) =>
             /\ lookup.type = "unknown"
             /\ lookup.buffers = <<>>)
    /\ [][lookup'.made => pipelineMetadata' = pipelineMetadata]_vars

C26_Witness ==
    /\ calls = 2
    /\ lookup.made
    /\ lookup.pipeline = 2
    /\ lookup.type = "render"
    /\ Len(lookup.buffers) = 2
    /\ 1 \in DOMAIN pipelineMetadata
    /\ pipelineMetadata[1].type = "compute"


-----------------------------------------------------------------------------
(* Failures of createPipeline *)

\* A step of the last call failed: something was thrown inside the try
\* block, or the device found the render pipeline descriptor invalid
StepFailed == result.status = "error" \/ (result.status = "ok" /\ ~result.valid)

\* C27: when a step of createPipeline fails, the call fails with that very
\* failure, returns no pipeline and registers no metadata entry.
C27_FailsWithThatFailure ==
    (lastCall.type # "none" /\ StepFailed) =>
        /\ result.status = "error"
        /\ result.escapes = result.error
        /\ result.pipeline = 0
        /\ calls \notin DOMAIN pipelineMetadata


-----------------------------------------------------------------------------
(* fail never returns *)

\* The releases handleCriticalError attempted in a step: those that
\* succeeded and those that threw
Released == Len(destroyed') - Len(destroyed)

\* C28: fail never returns normally: the step in which handleCriticalError
\* runs for the first time sets errorOccurred, clears the running flag,
\* attempts the release of what is held and calls fail, and the statement
\* after the fail call is not executed: nothing is logged in that step but
\* the releases that threw.
C28_FailNeverReturns ==
    [][(~errorOccurred /\ errorOccurred') =>
           /\ ~shouldContinueRendering'
           /\ failCalls' > failCalls
           /\ Reports(errorOutput') > Reports(errorOutput)
           /\ Released \in 0 .. Len(ReleaseOrder)
           /\ errorOutput'.logs - errorOutput.logs \in 0 .. Cardinality(faulty)
           /\ Released + (errorOutput'.logs - errorOutput.logs) >= 1]_vars

C28_Witness ==
    /\ errorOccurred
    /\ submitted = 2
    /\ failCalls = 1
    /\ faulty = { "particleBuffer0" }
    /\ errorOutput.logs = 1
    /\ Len(destroyed) = 4


-----------------------------------------------------------------------------
(* Pending frame callbacks *)

\* computeBoids and the sort page call frame() directly once; the other two
\* pages request their first frame
DirectCalls == IF demo \in { "boids", "bitonic" } THEN 1 ELSE 0

\* C29: at most one display-refresh callback is pending at any time; a step
\* requests at most one callback, and a running loop requests it only in a
\* step that has submitted its frame or continues a submitted frame; the
\* frames run never exceed the callbacks delivered plus the initial direct
\* call.
C29_AtMostOnePendingCallback ==
    /\ [](pending + resolved <= 1)
    /\ [](encoded + pending <= rafRequests + DirectCalls)
    /\ [][/\ rafRequests' <= rafRequests + 1
          /\ (rafRequests' > rafRequests /\ pc # "init") =>
                 \/ submitted' = submitted + 1
                 \/ (resolved = 1 /\ resolved' = 0 /\ lastBatch.frame = submitted - 1)]_vars

C29_Witness ==
    /\ demo = "bitonic"
    /\ pending = 1
    /\ rafRequests = 2
    /\ encoded = 2
    /\ executed = 2


-----------------------------------------------------------------------------
(* Generated against hand-written layouts *)

\* C30: for the attributes of locations 0, 1 and 2, one each, the layouts
\* generateBufferLayouts derives are the hand-written layouts of
\* computeBoids-hardcode: the same two streams in the same order, with the
\* same strides, step modes, shader locations, offsets and formats.
C30_GeneratedEqualsHandWritten ==
    (RenderReachedAttributes /\ Len(extracted.val) = 3
         /\ LocationSet(extracted.val) = { 0, 1, 2 }) =>
        /\ layouts.ran /\ layouts.ok
        /\ layouts.val = HardcodeLayouts
        /\ (result.status = "ok" =>
               GetPipelineBuffers(pipelineMetadata, result.pipeline) = HardcodeLayouts)

C30_Witness ==
    /\ RenderReachedAttributes
    /\ Len(decl) = 3
    /\ decl[1].loc = 1
    /\ decl[2].loc = 0
    /\ decl[3].loc = 2
    /\ result.status = "ok"
    /\ result.valid
    /\ layouts.val = HardcodeLayouts

=============================================================================
